---- MODULE Spec2Model ----
(***************************************************************************)
(* conflux recon peer (recon/peer.go): the command worker, the listener,   *)
(* Start/Stop and the per-connection reconciliation session                *)
(* (interactWithClient), as one state machine.                             *)
(*                                                                         *)
(* Goroutines are processes with a program counter each; an unbuffered Go  *)
(* channel is a rendezvous: one action moves the sender and the receiver.  *)
(* The prefix tree, the wire format and the gossip loop are not part of    *)
(* recon/peer.go; they are modelled by the contract peer.go relies on.     *)
(***************************************************************************)
EXTENDS Integers, Sequences, FiniteSets, TLC

(***************************************************************************)
(* Bounds of the model.                                                    *)
(***************************************************************************)
\* elements are 0..MaxElem
MaxElem == 2
\* length of the longest node key (bits of an element used by the trie)
MaxDepth == 2
\* Settings.MBar: nodes smaller than this are sent in full
MBar == 3
\* Settings.MaxOutstandingReconRequests
MaxOutstandingReconRequests == 2
\* connections the listener accepts in one run
MaxConns == 1
\* Insert/Remove calls each application goroutine makes
MaxCalls == 1
\* Stop calls made in one run
MaxStops == 1

Universe == 0..MaxElem

(***************************************************************************)
(* PrefixTree / PrefixNode contract.  A node is named by its key, the bit  *)
(* string of its path; it holds the elements of the tree whose leading     *)
(* bits are its key.                                                       *)
(***************************************************************************)
RECURSIVE Pow2(_)
Pow2(n) == IF n = 0 THEN 1 ELSE 2 * Pow2(n - 1)

\* i-th bit of the path of element e, lowest bit first
Bit(e, i) == (e \div Pow2(i - 1)) % 2

HasPrefix(e, key) == \A i \in 1..Len(key) : Bit(e, i) = key[i]

\* a leaf splits when it holds more than this many elements
SplitThreshold == 1

Elements(t, key) == {e \in t : HasPrefix(e, key)}

Size(t, key) == Cardinality(Elements(t, key))

IsLeaf(t, key) == Len(key) = MaxDepth \/ Size(t, key) <= SplitThreshold

Children(t, key) == IF IsLeaf(t, key) THEN <<>>
                    ELSE <<Append(key, 0), Append(key, 1)>>

Key(node) == node

\* sample points and modulus of the digest of a node
SamplePoints == <<4, 5>>
SampleP == 7

RECURSIVE CharPoly(_, _)
CharPoly(S, x) ==
    IF S = {} THEN 1
    ELSE LET e == CHOOSE y \in S : TRUE
         IN  (((x - e) % SampleP) * CharPoly(S \ {e}, x)) % SampleP

SValues(t, key) ==
    [i \in 1..Len(SamplePoints) |-> CharPoly(Elements(t, key), SamplePoints[i])]

(***************************************************************************)
(* ReconMsg: the tagged union, as records of one shape.                    *)
(***************************************************************************)
NoKey == <<-1>>

MkMsg(tag, prefix, zset, size, samples) ==
    [tag |-> tag, prefix |-> prefix, zset |-> zset, size |-> size,
     samples |-> samples]

ReconRqstFull(prefix, elements) == MkMsg("ReconRqstFull", prefix, elements, 0, <<>>)
ReconRqstPoly(prefix, size, samples) == MkMsg("ReconRqstPoly", prefix, {}, size, samples)
ElementsMsg(zset) == MkMsg("Elements", NoKey, zset, 0, <<>>)
FullElements(zset) == MkMsg("FullElements", NoKey, zset, 0, <<>>)
SyncFail == MkMsg("SyncFail", NoKey, {}, 0, <<>>)
DoneMsg == MkMsg("Done", NoKey, {}, 0, <<>>)
\* what a receive from the closed message channel yields
NilMsg == MkMsg("nil", NoKey, {}, 0, <<>>)

ZSetDiff(a, b) == a \ b

(***************************************************************************)
(* Zp: a value of the finite field Z(p), a pair of big integers.  Zp       *)
(* objects live on a heap and are passed by reference: Add changes its     *)
(* receiver in place.                                                      *)
(***************************************************************************)
\* the largest and the smallest n given to NewZp are MaxN and -MaxNeg
MaxN == 9
MaxNeg == 1
\* the most operands of one Add call
MaxArgs == 2

\* two prime moduli: the 5 of the tests' zp5, and 2
Moduli == {2, 5}
ZpInputs == (0 - MaxNeg)..MaxN
\* the objects, in the order they are made
ZpOrder == <<"a", "b", "c">>
ZpObjs == {ZpOrder[i] : i \in 1..Len(ZpOrder)}

NilZp == [P |-> 0, Z |-> 0]
NoZpCall == [op |-> "none", zp |-> "none", p |-> 0, n |-> 0, values |-> <<>>,
             before |-> [o \in ZpObjs |-> NilZp], panicked |-> FALSE,
             ret |-> "none"]

\* the remainder of Go's % and of big.Int.Rem: it has the sign of x
BigMod_rem(x, m) == IF x >= 0 THEN x % m ELSE 0 - ((0 - x) % m)

\* big.Int.Mod: the Euclidean modulus, in 0..|m|-1
BigMod(x, m) == x % (IF m < 0 THEN 0 - m ELSE m)

\* big.Int.Add taking the difference
BigAdd_sub(x, y) == x - y

\* big.Int.Add: no overflow
BigAdd(x, y) == x + y

normalize(zp) == [P |-> zp.P, Z |-> BigMod(zp.Z, zp.P)]

NewZp(p, n) == normalize([P |-> p, Z |-> n])

\* assertZp never failing
assertZp_off(x, y) == TRUE

\* assertZp(x, y) returns, rather than panics
assertZp(x, y) == x.P = y.P

\* zp.Add(values...) on the heap h: the heap it leaves, whether it panicked,
\* and the reference it returns
RECURSIVE Add(_, _, _)
Add(h, zp, values) ==
    IF values = <<>> THEN [heap |-> h, panicked |-> FALSE, ret |-> zp]
    ELSE LET v == Head(values)
         IN  IF ~assertZp(h[zp], h[v])
             THEN [heap |-> h, panicked |-> TRUE, ret |-> "none"]
             ELSE Add([h EXCEPT ![zp] =
                          normalize([P |-> h[zp].P,
                                     Z |-> BigAdd(h[zp].Z, h[v].Z)])],
                      zp, Tail(values))

(***************************************************************************)
(* State.                                                                  *)
(***************************************************************************)
VARIABLES
    \* Peer
    tree,        \* the elements held by the PrefixTree
    nonnil,      \* the channel fields of Peer that are not nil
    closed,      \* the channels that have been closed
    \* goroutines started by Start
    servePc,     \* Serve / accept
    conns,       \* connections accepted so far
    connState,   \* the accepted connection: "none", "open", "closed"
    gossipPc,    \* Gossip
    workerPc,    \* handleCmds
    wcur,        \* the caller whose command handleCmds received last
    wres,        \* the error value that command returned
    executing,   \* callers whose command body is being executed
    \* application goroutines calling Insert / Remove
    cpc,         \* position of each application goroutine in ExecCmd
    ccalls,      \* calls each has made
    \* Stop and the goroutines it starts
    stopPc, stopCalls, stopRecvd, sigServe, sigGossip, drainPc,
    \* Recover events received from RecoverChan, in order
    recovered,
    \* reconWithClient and the locals of interactWithClient
    spc,         \* position of the session
    requestQ, bottomQ, rcvrSet, flushing,
    cur,         \* bottom.requestEntry held across the blocking receive
    err,         \* err of interactWithClient
    reader,      \* the readAllMsgs goroutine and its channel
    \* the connection as the session sees it
    writeOK,     \* FALSE once writes on the connection fail
    remoteSet,   \* the elements the remote holds
    deadline,    \* the connection's I/O deadline: "none", "set", "expired"
    \* history of the session
    sent,        \* WriteMsg calls, in order: [msg, ok]
    pushed,      \* request entries in the order pushRequest queued them
    handled,     \* handleReply calls, in order: [req, msg]
    \* Zp values
    zheap,       \* the Zp objects made so far: [P, Z] each
    zlast        \* the last call on them: NewZp or Add, with its outcome

peerVars == <<tree, nonnil, closed>>
serveVars == <<servePc, conns, connState>>
workerVars == <<workerPc, wcur, wres, executing>>
callerVars == <<cpc, ccalls>>
stopVars == <<stopPc, stopCalls, stopRecvd, sigServe, sigGossip, drainPc>>
queueVars == <<requestQ, bottomQ, rcvrSet, flushing, cur>>
histVars == <<sent, pushed, handled>>
envVars == <<writeOK, remoteSet>>
sessVars == <<spc, queueVars, err, reader, histVars, envVars>>
zpVars == <<zheap, zlast>>
vars == <<peerVars, serveVars, gossipPc, workerVars, callerVars, stopVars,
          recovered, sessVars, deadline, zpVars>>

ChanFields == {"serverEnable", "gossipEnable", "stopped", "reconCmdReq",
               "reconCmdResp", "RecoverChan"}

Apps == {"app1", "app2"}
Listener == "listener"

NoErr == "nil"
NoReq == [node |-> NoKey, key |-> NoKey]

(***************************************************************************)
(* reconWithClient: the two queues.                                        *)
(***************************************************************************)
reconStateBottom == "Bottom"
reconStateFlushEnded == "FlushEnded"

NilBottom == [req |-> NoReq, state |-> "nil"]

requestEntry(node, key) == [node |-> node, key |-> key]
bottomEntry(req, state) == [req |-> req, state |-> state]

pushBottom(q, bottom) == Append(q, bottom)

pushRequest(q, req) == Append(q, req)

topBottom(q) == IF Len(q) = 0 THEN NilBottom ELSE q[1]

\* popBottom leaving the queue as it is
popBottom_keep(q) ==
    IF Len(q) = 0 THEN [result |-> NilBottom, rest |-> q]
    ELSE [result |-> q[1], rest |-> q]

popBottom(q) ==
    IF Len(q) = 0 THEN [result |-> NilBottom, rest |-> q]
    ELSE [result |-> q[1], rest |-> Tail(q)]

\* popRequest taking the newest entry
popRequest_newest(q) ==
    IF Len(q) = 0 THEN [result |-> NoReq, rest |-> q]
    ELSE [result |-> q[Len(q)], rest |-> SubSeq(q, 1, Len(q) - 1)]

popRequest(q) ==
    IF Len(q) = 0 THEN [result |-> NoReq, rest |-> q]
    ELSE [result |-> q[1], rest |-> Tail(q)]

isDone(rq, bq) == Len(rq) = 0 /\ Len(bq) = 0

(***************************************************************************)
(* WriteMsg on the session's connection: the call is logged with its       *)
(* outcome; no caller in peer.go's session looks at the outcome.           *)
(***************************************************************************)
WriteMsg(log, msg) == Append(log, [msg |-> msg, ok |-> writeOK])

\* the test of line 322 inverted
RequestMsg_inverted(req) ==
    IF ~(IsLeaf(tree, req.node) \/ Size(tree, req.node) < MBar)
    THEN ReconRqstFull(req.key, Elements(tree, req.node))
    ELSE ReconRqstPoly(req.key, Size(tree, req.node), SValues(tree, req.node))

\* the message sendRequest builds for a request entry
RequestMsg(req) ==
    IF IsLeaf(tree, req.node) \/ Size(tree, req.node) < MBar
    THEN ReconRqstFull(req.key, Elements(tree, req.node))
    ELSE ReconRqstPoly(req.key, Size(tree, req.node), SValues(tree, req.node))

\* sendRequest of the entry popped from requestQ, on the in-flight queue bq
sendRequest(req, bq) ==
    /\ sent' = WriteMsg(sent, RequestMsg(req))
    /\ bottomQ' = pushBottom(bq, bottomEntry(req, reconStateBottom))

\* the entry handleReply queues for a child node
ChildEntry(childNode) == requestEntry(childNode, Key(childNode))

\* the loop over the children stopping after the first
PushChildren_first(q, nodes) ==
    IF nodes = <<>> THEN q ELSE pushRequest(q, ChildEntry(Head(nodes)))

RECURSIVE PushChildren(_, _)
PushChildren(q, nodes) ==
    IF nodes = <<>> THEN q
    ELSE PushChildren(pushRequest(q, ChildEntry(Head(nodes))), Tail(nodes))

\* the two halves of the difference handleReply computes for FullElements
LocalDiff(req, m) == ZSetDiff(Elements(tree, req.node), m.zset)
\* the whole remote set instead of the difference
RemoteDiff_whole(req, m) == m.zset
RemoteDiff(req, m) == ZSetDiff(m.zset, Elements(tree, req.node))

\* handleReply without its default case
ReplyErr_lenient(msg, req) ==
    IF msg.tag = "SyncFail" /\ IsLeaf(tree, req.node)
    THEN "Syncfail received at leaf node"
    ELSE NoErr

\* the error handleReply returns for msg on req
ReplyErr(msg, req) ==
    CASE msg.tag = "SyncFail" ->
            IF IsLeaf(tree, req.node) THEN "Syncfail received at leaf node"
            ELSE NoErr
      [] msg.tag \in {"Elements", "FullElements"} -> NoErr
      [] OTHER -> "unexpected message"

\* handleReply: its effect on the session, apart from the in-flight queue
handleReply(msg, req) ==
    /\ handled' = Append(handled, [req |-> req, msg |-> msg])
    /\ err' = ReplyErr(msg, req)
    /\ CASE msg.tag = "SyncFail" /\ ~IsLeaf(tree, req.node) ->
              /\ requestQ' = PushChildren(requestQ, Children(tree, req.node))
              /\ pushed' = PushChildren(pushed, Children(tree, req.node))
              /\ UNCHANGED <<rcvrSet, sent>>
         [] msg.tag = "Elements" ->
              /\ rcvrSet' = rcvrSet \cup msg.zset
              /\ UNCHANGED <<requestQ, pushed, sent>>
         [] msg.tag = "FullElements" ->
              /\ sent' = WriteMsg(sent, ElementsMsg(LocalDiff(req, msg)))
              /\ rcvrSet' = rcvrSet \cup RemoteDiff(req, msg)
              /\ UNCHANGED <<requestQ, pushed>>
         [] OTHER -> UNCHANGED <<requestQ, pushed, rcvrSet, sent>>

flushQueue ==
    /\ bottomQ' = pushBottom(bottomQ, bottomEntry(NoReq, reconStateFlushEnded))
    /\ flushing' = TRUE

(***************************************************************************)
(* interactWithClient runs as the body of the listener's command.          *)
(***************************************************************************)
SessionRunning == spc \notin {"none", "dead"}

\* the command body returns e to handleCmds
Return(e) ==
    /\ workerPc' = "resp"
    /\ wres' = e
    /\ executing' = executing \ {Listener}
    /\ UNCHANGED wcur

\* leaving the loop on an error instead of returning
EndIteration_break ==
    /\ spc' = IF err' # NoErr \/ isDone(requestQ', bottomQ') THEN "done"
              ELSE "loop"
    /\ UNCHANGED workerVars

\* the end of a loop iteration (lines 419-422) and the loop condition
EndIteration ==
    IF err' # NoErr
    THEN spc' = "none" /\ Return(err')
    ELSE /\ spc' = IF isDone(requestQ', bottomQ') THEN "done" ELSE "loop"
         /\ UNCHANGED workerVars

\* readAllMsgs's channel has something to receive: a message the goroutine
\* is blocked sending, or the channel is closed
MsgReady == reader.st \in {"offer", "closed"}
MsgRecv == IF reader.st = "offer" THEN reader.msg ELSE NilMsg
AfterRecv == IF reader.st = "offer" THEN [st |-> "reading", msg |-> NilMsg]
             ELSE reader

\* lines 373-380: Root(), the root request, readAllMsgs
interactStart ==
    /\ workerPc = "call" /\ wcur = Listener /\ Listener \in executing
    /\ spc = "none" /\ connState = "open" /\ reader.st = "none"
    /\ \E rootOK \in BOOLEAN :
         IF rootOK
         THEN /\ requestQ' = pushRequest(<<>>, requestEntry(<<>>, <<>>))
              /\ pushed' = <<requestEntry(<<>>, <<>>)>>
              /\ reader' = [st |-> "reading", msg |-> NilMsg]
              /\ spc' = "loop"
              /\ err' = NoErr
              /\ UNCHANGED workerVars
         ELSE /\ err' = "Prefix-tree node not found"
              /\ Return(err')
              /\ requestQ' = <<>> /\ pushed' = <<>>
              /\ UNCHANGED <<reader, spc>>
    /\ bottomQ' = <<>> /\ rcvrSet' = {} /\ flushing' = FALSE /\ cur' = NoReq
    /\ sent' = <<>> /\ handled' = <<>>
    /\ UNCHANGED <<peerVars, serveVars, gossipPc, callerVars, stopVars,
                   recovered, envVars>>
    /\ UNCHANGED <<deadline, zpVars>>

InLoop == spc = "loop" /\ Listener \in executing

\* case bottom == nil (lines 385-388)
loopSendFirst ==
    /\ InLoop
    /\ topBottom(bottomQ) = NilBottom
    /\ LET p == popRequest(requestQ)
       IN  /\ requestQ' = p.rest
           /\ sendRequest(p.result, bottomQ)
    /\ UNCHANGED <<peerVars, serveVars, gossipPc, workerVars, callerVars,
                   stopVars, recovered, spc, rcvrSet, flushing, cur, err,
                   reader, pushed, handled, envVars>>
    /\ UNCHANGED <<deadline, zpVars>>

\* case bottom.state == reconStateFlushEnded (lines 389-392)
loopFlushEnded ==
    /\ InLoop
    /\ topBottom(bottomQ).state = reconStateFlushEnded
    /\ bottomQ' = popBottom(bottomQ).rest
    /\ flushing' = FALSE
    /\ spc' = IF isDone(requestQ, bottomQ') THEN "done" ELSE "loop"
    /\ UNCHANGED <<peerVars, serveVars, gossipPc, workerVars, callerVars,
                   stopVars, recovered, requestQ, rcvrSet, cur, err, reader,
                   histVars, envVars>>
    /\ UNCHANGED <<deadline, zpVars>>

\* case bottom.state == reconStateBottom, the select received (lines 398-404)
loopPollHit ==
    /\ InLoop
    /\ topBottom(bottomQ).state = reconStateBottom
    /\ MsgReady
    /\ reader' = AfterRecv
    /\ bottomQ' = popBottom(bottomQ).rest
    /\ handleReply(MsgRecv, topBottom(bottomQ).req)
    /\ EndIteration
    /\ UNCHANGED <<peerVars, serveVars, gossipPc, callerVars, stopVars,
                   recovered, flushing, cur, envVars>>
    /\ UNCHANGED <<deadline, zpVars>>

\* the window test of line 405
WindowFull == Len(bottomQ) > MaxOutstandingReconRequests \/ Len(requestQ) = 0

\* no message, window full, not flushing (lines 407-408)
loopFlushQueue ==
    /\ InLoop
    /\ topBottom(bottomQ).state = reconStateBottom
    /\ ~MsgReady
    /\ WindowFull /\ ~flushing
    /\ flushQueue
    /\ UNCHANGED <<peerVars, serveVars, gossipPc, workerVars, callerVars,
                   stopVars, recovered, spc, requestQ, rcvrSet, cur, err,
                   reader, histVars, envVars>>
    /\ UNCHANGED <<deadline, zpVars>>

\* no message, window full, flushing: popBottom, then block (lines 410-411)
loopBlock ==
    /\ InLoop
    /\ topBottom(bottomQ).state = reconStateBottom
    /\ ~MsgReady
    /\ WindowFull /\ flushing
    /\ bottomQ' = popBottom(bottomQ).rest
    /\ cur' = topBottom(bottomQ).req
    /\ spc' = "recv"
    /\ UNCHANGED <<peerVars, serveVars, gossipPc, workerVars, callerVars,
                   stopVars, recovered, requestQ, rcvrSet, flushing, err,
                   reader, histVars, envVars>>
    /\ UNCHANGED <<deadline, zpVars>>

\* the blocking receive returns (lines 411-412)
loopBlockRecv ==
    /\ spc = "recv" /\ Listener \in executing
    /\ MsgReady
    /\ reader' = AfterRecv
    /\ handleReply(MsgRecv, cur)
    /\ cur' = NoReq
    /\ UNCHANGED bottomQ
    /\ EndIteration
    /\ UNCHANGED <<peerVars, serveVars, gossipPc, callerVars, stopVars,
                   recovered, flushing, envVars>>
    /\ UNCHANGED <<deadline, zpVars>>

\* no message, window open: send the next request (lines 414-417)
loopSendNext ==
    /\ InLoop
    /\ topBottom(bottomQ).state = reconStateBottom
    /\ ~MsgReady
    /\ ~WindowFull
    /\ LET p == popRequest(requestQ)
       IN  /\ requestQ' = p.rest
           /\ sendRequest(p.result, bottomQ)
    /\ UNCHANGED <<peerVars, serveVars, gossipPc, workerVars, callerVars,
                   stopVars, recovered, spc, rcvrSet, flushing, cur, err,
                   reader, pushed, handled, envVars>>
    /\ UNCHANGED <<deadline, zpVars>>

\* rcvrSet.Items()
Items(zset) == zset

\* after the loop: Done, then the Recover event if any (lines 423-431)
interactDone ==
    /\ spc = "done" /\ Listener \in executing
    /\ sent' = WriteMsg(sent, DoneMsg)
    /\ IF Cardinality(Items(rcvrSet)) > 0
       THEN spc' = "recover" /\ UNCHANGED workerVars
       ELSE spc' = "none" /\ Return(err)
    /\ UNCHANGED <<peerVars, serveVars, gossipPc, callerVars, stopVars,
                   recovered, queueVars, err, reader, pushed, handled, envVars>>
    /\ UNCHANGED <<deadline, zpVars>>

(***************************************************************************)
(* The Recover event: an unbuffered send on RecoverChan (lines 426-431),   *)
(* received by the application or by the goroutine Stop starts to drain    *)
(* the channel (lines 109-112).                                            *)
(***************************************************************************)
RecoverEvent == [RemoteElements |-> Items(rcvrSet)]

interactRecover(to) ==
    /\ spc = "recover" /\ Listener \in executing
    /\ "RecoverChan" \notin closed
    /\ to = "drain" => drainPc = "ranging"
    /\ recovered' = Append(recovered, [event |-> RecoverEvent, to |-> to])
    /\ spc' = "none"
    /\ Return(err)
    /\ UNCHANGED <<peerVars, serveVars, gossipPc, callerVars, stopVars,
                   queueVars, err, reader, histVars, envVars>>
    /\ UNCHANGED <<deadline, zpVars>>

(***************************************************************************)
(* The remote end of the connection.                                       *)
(***************************************************************************)
RequestTags == {"ReconRqstFull", "ReconRqstPoly"}

\* requests the remote has received
Delivered == SelectSeq(sent, LAMBDA w : w.ok /\ w.msg.tag \in RequestTags)

\* the prefix of the request the next reply answers
NextPrefix == Delivered[Len(handled) + 1].msg.prefix

\* the remote's elements under that prefix: what its reply carries
RemoteElements == {e \in remoteSet : HasPrefix(e, NextPrefix)}

\* the remote answers with any of the tags a session may be sent
Replies == {SyncFail, DoneMsg, ElementsMsg(RemoteElements),
            FullElements(RemoteElements)}

\* ReadMsg in readAllMsgs returns the remote's next reply (lines 309, 314)
RemoteReply ==
    /\ SessionRunning /\ connState = "open"
    /\ reader.st = "reading"
    /\ Len(handled) < Len(Delivered)
    /\ \E m \in Replies : reader' = [st |-> "offer", msg |-> m]
    /\ UNCHANGED <<peerVars, serveVars, gossipPc, workerVars, callerVars,
                   stopVars, recovered, spc, queueVars, err, histVars, envVars>>
    /\ UNCHANGED <<deadline, zpVars>>

\* ReadMsg fails (error, deadline, connection closed): close(c) (lines 310-312)
ReadFail ==
    /\ SessionRunning /\ connState = "open"
    /\ reader.st = "reading"
    /\ reader' = [st |-> "closed", msg |-> NilMsg]
    /\ UNCHANGED <<peerVars, serveVars, gossipPc, workerVars, callerVars,
                   stopVars, recovered, spc, queueVars, err, histVars, envVars>>
    /\ UNCHANGED <<deadline, zpVars>>

\* the deadline of line 209 passes: the pending ReadMsg of readAllMsgs
\* fails and close(c) follows (lines 310-312); writes fail from now on
ReadDeadline ==
    /\ SessionRunning /\ connState = "open"
    /\ reader.st = "reading"
    /\ deadline = "set"
    /\ deadline' = "expired"
    /\ reader' = [st |-> "closed", msg |-> NilMsg]
    /\ writeOK' = FALSE
    /\ UNCHANGED <<peerVars, serveVars, gossipPc, workerVars, callerVars,
                   stopVars, recovered, spc, queueVars, err, histVars,
                   remoteSet, zpVars>>

\* from now on WriteMsg on the connection fails
WriteBreak ==
    /\ SessionRunning /\ connState = "open"
    /\ writeOK
    /\ writeOK' = FALSE
    /\ UNCHANGED <<peerVars, serveVars, gossipPc, workerVars, callerVars,
                   stopVars, recovered, spc, queueVars, err, reader, histVars,
                   remoteSet>>
    /\ UNCHANGED <<deadline, zpVars>>

SessionStep ==
    \/ interactStart
    \/ loopSendFirst
    \/ loopFlushEnded
    \/ loopPollHit
    \/ loopFlushQueue
    \/ loopBlock
    \/ loopBlockRecv
    \/ loopSendNext
    \/ interactDone

(***************************************************************************)
(* Peer: NewPeer, Start, the command worker, ExecCmd.                      *)
(***************************************************************************)
\* NewPeer(settings, tree): only RecoverChan is made (lines 70-75); r is the
\* set held by the remote that will connect
NewPeer(t, r) ==
    /\ tree = t
    /\ nonnil = {"RecoverChan"}
    /\ closed = {}
    /\ servePc = "none" /\ conns = 0 /\ connState = "none"
    /\ gossipPc = "none"
    /\ workerPc = "none" /\ wcur = "none" /\ wres = NoErr /\ executing = {}
    /\ cpc = [c \in Apps |-> "idle"]
    /\ ccalls = [c \in Apps |-> 0]
    /\ stopPc = "idle" /\ stopCalls = 0 /\ stopRecvd = <<>>
    /\ sigServe = "none" /\ sigGossip = "none" /\ drainPc = "none"
    /\ recovered = <<>>
    /\ spc = "none"
    /\ requestQ = <<>> /\ bottomQ = <<>> /\ rcvrSet = {} /\ flushing = FALSE
    /\ cur = NoReq /\ err = NoErr
    /\ reader = [st |-> "none", msg |-> NilMsg]
    /\ writeOK = TRUE /\ remoteSet = r
    /\ deadline = "none"
    /\ sent = <<>> /\ pushed = <<>> /\ handled = <<>>
    /\ zheap = [o \in ZpObjs |-> NilZp] /\ zlast = NoZpCall

\* Start (lines 89-98).  A peer is started once: Stop leaves RecoverChan nil
\* and Start does not make it again.
Start ==
    /\ "serverEnable" \notin nonnil
    /\ "RecoverChan" \in nonnil
    /\ servePc = "none"
    /\ nonnil' = ChanFields
    /\ servePc' = "listen"
    /\ gossipPc' = "run"
    /\ workerPc' = "select"
    /\ UNCHANGED <<tree, closed, conns, connState, wcur, wres, executing,
                   callerVars, stopVars, recovered, sessVars>>
    /\ UNCHANGED <<deadline, zpVars>>

\* Insert / Remove call ExecCmd, which sends on p.reconCmdReq (lines 143-159);
\* a send on a nil channel blocks forever
ExecCmdCall(c) ==
    /\ cpc[c] = "idle"
    /\ ccalls[c] < MaxCalls
    /\ ccalls' = [ccalls EXCEPT ![c] = @ + 1]
    /\ cpc' = [cpc EXCEPT ![c] =
                  IF "reconCmdReq" \in nonnil THEN "send" ELSE "blockedNil"]
    /\ UNCHANGED <<peerVars, serveVars, gossipPc, workerVars, stopVars,
                   recovered, sessVars>>
    /\ UNCHANGED <<deadline, zpVars>>

\* the caller c is blocked in  p.reconCmdReq <- cmd
Sending(c) == IF c = Listener THEN servePc = "execSend" ELSE cpc[c] = "send"
\* the caller c is blocked in  err = <-p.reconCmdResp
Waiting(c) == IF c = Listener THEN servePc = "execWait" ELSE cpc[c] = "wait"

\* handleCmds running each command in a goroutine of its own
handleCmdsRecv_go(c) ==
    /\ workerPc = "select"
    /\ "reconCmdReq" \notin closed
    /\ Sending(c)
    /\ workerPc' = "select"
    /\ wcur' = c
    /\ executing' = executing \cup {c}
    /\ UNCHANGED wres
    /\ IF c = Listener
       THEN servePc' = "execWait" /\ UNCHANGED cpc
       ELSE cpc' = [cpc EXCEPT ![c] = "wait"] /\ UNCHANGED servePc
    /\ UNCHANGED <<peerVars, conns, connState, gossipPc, ccalls, stopVars,
                   recovered, sessVars>>
    /\ UNCHANGED <<deadline, zpVars>>

\* handleCmds receives a command (line 134) and calls it (line 138)
handleCmdsRecv(c) ==
    /\ workerPc = "select"
    /\ "reconCmdReq" \notin closed
    /\ Sending(c)
    /\ workerPc' = "call"
    /\ wcur' = c
    /\ executing' = executing \cup {c}
    /\ UNCHANGED wres
    /\ IF c = Listener
       THEN servePc' = "execWait" /\ UNCHANGED cpc
       ELSE cpc' = [cpc EXCEPT ![c] = "wait"] /\ UNCHANGED servePc
    /\ UNCHANGED <<peerVars, conns, connState, gossipPc, ccalls, stopVars,
                   recovered, sessVars>>
    /\ UNCHANGED <<deadline, zpVars>>

\* PrefixTree.Insert / Remove: the error they return and the tree they leave
TreeErr(cmd, t) ==
    CASE cmd.op = "Insert" /\ cmd.z \in t -> "duplicate element"
      [] cmd.op = "Remove" /\ cmd.z \notin t -> "element not found"
      [] OTHER -> NoErr

TreeAfter(cmd, t) ==
    CASE cmd.op = "Insert" -> t \cup {cmd.z}
      [] cmd.op = "Remove" -> t \ {cmd.z}
      [] OTHER -> t

\* the elements the application inserts and removes, and its commands
AppElems == {0, 1}
TreeCmds == [op : {"Insert", "Remove"}, z : AppElems]

\* the body of an Insert / Remove command (lines 150-152, 156-158)
treeCmd(c) ==
    /\ c \in Apps
    /\ c \in executing
    /\ \E cmd \in TreeCmds :
         /\ tree' = TreeAfter(cmd, tree)
         /\ wres' = TreeErr(cmd, tree)
    /\ executing' = executing \ {c}
    /\ workerPc' = "resp"
    /\ UNCHANGED <<nonnil, closed, serveVars, gossipPc, wcur, callerVars,
                   stopVars, recovered, sessVars>>
    /\ UNCHANGED <<deadline, zpVars>>

\* where handleCmds is after the send of line 138: back at the select, on
\* the channel p.reconCmdReq names then
NextSelect(fields) == IF "reconCmdReq" \in fields THEN "select" ELSE "blockedNil"

\* the session's state is gone once accept has returned
SessionCleared ==
    /\ requestQ' = <<>> /\ bottomQ' = <<>> /\ rcvrSet' = {}
    /\ flushing' = FALSE /\ cur' = NoReq /\ err' = NoErr
    /\ reader' = [st |-> "none", msg |-> NilMsg]
    /\ sent' = <<>> /\ pushed' = <<>> /\ handled' = <<>>
    /\ UNCHANGED <<spc, envVars>>

\* p.reconCmdResp <- result (line 138), received by a caller (line 145)
handleCmdsResp(c) ==
    /\ workerPc = "resp"
    /\ "reconCmdResp" \notin closed
    /\ "reconCmdResp" \in nonnil
    /\ Waiting(c)
    /\ workerPc' = NextSelect(nonnil)
    /\ wcur' = "none" /\ wres' = NoErr
    /\ IF c = Listener
       THEN \* accept returns: the deferred conn.Close() (line 192)
            /\ servePc' = "poll"
            /\ connState' = "closed"
            /\ SessionCleared
            /\ UNCHANGED cpc
       ELSE /\ cpc' = [cpc EXCEPT ![c] = "idle"]
            /\ UNCHANGED <<servePc, connState, sessVars>>
    /\ UNCHANGED <<peerVars, conns, gossipPc, executing, ccalls, stopVars,
                   recovered>>
    /\ UNCHANGED <<deadline, zpVars>>

\* an unrecovered panic in goroutine g ends the process: every goroutine stops
Crash(g) ==
    /\ workerPc' = IF g = "handleCmds" THEN "panic" ELSE "dead"
    /\ cpc' = [c \in Apps |-> IF c = g THEN "panic" ELSE "dead"]
    /\ servePc' = "dead" /\ gossipPc' = "dead"
    /\ stopPc' = "dead" /\ drainPc' = "dead"
    /\ sigServe' = "dead" /\ sigGossip' = "dead"
    /\ spc' = IF spc = "none" THEN "none" ELSE "dead"
    /\ UNCHANGED <<peerVars, conns, connState, wcur, wres, executing, ccalls,
                   stopCalls, stopRecvd, recovered, queueVars, err, reader,
                   histVars, envVars>>
    /\ UNCHANGED <<deadline, zpVars>>

\* the receive of line 134 on the closed channel: !ok, return
handleCmdsClosed ==
    /\ workerPc = "select"
    /\ "reconCmdReq" \in closed
    /\ workerPc' = "exit"
    /\ UNCHANGED <<peerVars, serveVars, gossipPc, wcur, wres, executing,
                   callerVars, stopVars, recovered, sessVars>>
    /\ UNCHANGED <<deadline, zpVars>>

\* the send of line 138 after Stop.  The order in which the operands of the
\* send are evaluated is not specified: on the channel read before the
\* command ran, now closed, the send panics
handleCmdsRespClosed ==
    /\ workerPc = "resp"
    /\ "reconCmdResp" \in closed
    /\ Crash("handleCmds")

\* on the field read after the command ran, now nil, the send blocks forever
handleCmdsRespNil ==
    /\ workerPc = "resp"
    /\ "reconCmdResp" \notin nonnil
    /\ workerPc' = "blockedNil"
    /\ UNCHANGED <<peerVars, serveVars, gossipPc, wcur, wres, executing,
                   callerVars, stopVars, recovered, sessVars>>
    /\ UNCHANGED <<deadline, zpVars>>

\* a caller blocked in the send of line 144 when the channel is closed
ExecCmdSendClosed(c) ==
    /\ c \in Apps
    /\ cpc[c] = "send"
    /\ "reconCmdReq" \in closed
    /\ Crash(c)

\* a caller blocked in the receive of line 145 when the channel is closed:
\* the zero value, a nil error
ExecCmdRecvClosed(c) ==
    /\ c \in Apps
    /\ cpc[c] = "wait"
    /\ "reconCmdResp" \in closed
    /\ cpc' = [cpc EXCEPT ![c] = "idle"]
    /\ UNCHANGED <<peerVars, serveVars, gossipPc, workerVars, ccalls,
                   stopVars, recovered, sessVars>>
    /\ UNCHANGED <<deadline, zpVars>>

(***************************************************************************)
(* Serve and accept (lines 161-213).                                       *)
(***************************************************************************)
\* net.Listen (lines 162-166): on failure Serve returns at once
ServeListen ==
    /\ servePc = "listen"
    /\ \E bound \in BOOLEAN : servePc' = IF bound THEN "poll" ELSE "exitNoBind"
    /\ UNCHANGED <<peerVars, conns, connState, gossipPc, workerVars,
                   callerVars, stopVars, recovered, sessVars>>
    /\ UNCHANGED <<deadline, zpVars>>

\* the select of lines 169-177 receives Stop's false: close(p.serverEnable)
ServeDisabled ==
    /\ servePc = "poll"
    /\ sigServe = "sending"
    /\ sigServe' = "sent"
    /\ closed' = closed \cup {"serverEnable"}
    /\ servePc' = "stopAck"
    /\ UNCHANGED <<tree, nonnil, conns, connState, gossipPc, workerVars,
                   callerVars, stopPc, stopCalls, stopRecvd, sigGossip,
                   drainPc, recovered, sessVars>>
    /\ UNCHANGED <<deadline, zpVars>>

\* default case, then Accept (lines 176-183): a deadline error, or a
\* connection
ServeAccept ==
    /\ servePc = "poll"
    /\ sigServe # "sending"
    /\ conns < MaxConns
    /\ conns' = conns + 1
    /\ connState' = "open"
    /\ servePc' = "handshake"
    /\ writeOK' = TRUE
    /\ deadline' = "none"
    /\ UNCHANGED <<peerVars, gossipPc, workerVars, callerVars, stopVars,
                   recovered, spc, queueVars, err, reader, histVars,
                   remoteSet>>
    /\ UNCHANGED zpVars

\* accept up to ExecCmd (lines 192-210): the Config exchange fails and the
\* connection is closed, or it succeeds, the deadline is set (line 209) and
\* the session is submitted
AcceptHandshake ==
    /\ servePc = "handshake"
    /\ \E ok \in BOOLEAN :
         IF ok
         THEN /\ servePc' = IF "reconCmdReq" \in nonnil THEN "execSend"
                            ELSE "blockedNil"
              /\ deadline' = "set"
              /\ UNCHANGED connState
         ELSE /\ servePc' = "poll"
              /\ connState' = "closed"
              /\ UNCHANGED deadline
    /\ UNCHANGED <<peerVars, conns, gossipPc, workerVars, callerVars,
                   stopVars, recovered, sessVars>>
    /\ UNCHANGED zpVars

\* p.stopped <- true (line 173), received by Stop (lines 113-114)
StoppedSend(who) ==
    /\ stopPc \in {"wait1", "wait2"}
    /\ "stopped" \notin closed
    /\ \/ who = "serve" /\ servePc = "stopAck" /\ servePc' = "exit"
                        /\ UNCHANGED gossipPc
       \/ who = "gossip" /\ gossipPc = "stopAck" /\ gossipPc' = "exit"
                         /\ UNCHANGED servePc
    /\ stopRecvd' = Append(stopRecvd, who)
    /\ stopPc' = IF stopPc = "wait1" THEN "wait2" ELSE "closing"
    /\ UNCHANGED <<peerVars, conns, connState, workerVars, callerVars,
                   stopCalls, sigServe, sigGossip, drainPc, recovered,
                   sessVars>>
    /\ UNCHANGED <<deadline, zpVars>>

\* the gossip loop takes its disable signal and goes on to acknowledge it
GossipDisabled ==
    /\ gossipPc = "run"
    /\ sigGossip = "sending"
    /\ sigGossip' = "sent"
    /\ gossipPc' = "stopAck"
    /\ UNCHANGED <<peerVars, serveVars, workerVars, callerVars, stopPc,
                   stopCalls, stopRecvd, sigServe, drainPc, recovered,
                   sessVars>>
    /\ UNCHANGED <<deadline, zpVars>>

(***************************************************************************)
(* Stop (lines 100-126).                                                   *)
(***************************************************************************)
StopIdle == stopPc \in {"idle", "returned", "noop"}

\* lines 101-104: the peer is not running
StopNotRunning ==
    /\ StopIdle /\ stopCalls < MaxStops
    /\ "serverEnable" \notin nonnil
    /\ stopCalls' = stopCalls + 1
    /\ stopPc' = "noop"
    /\ stopRecvd' = <<>>
    /\ UNCHANGED <<peerVars, serveVars, gossipPc, workerVars, callerVars,
                   sigServe, sigGossip, drainPc, recovered, sessVars>>
    /\ UNCHANGED <<deadline, zpVars>>

\* lines 105-112: the three goroutines
StopBegin ==
    /\ StopIdle /\ stopCalls < MaxStops
    /\ "serverEnable" \in nonnil
    /\ stopCalls' = stopCalls + 1
    /\ stopPc' = "wait1"
    /\ stopRecvd' = <<>>
    /\ sigServe' = "sending"
    /\ sigGossip' = "sending"
    /\ drainPc' = "spawned"
    /\ UNCHANGED <<peerVars, serveVars, gossipPc, workerVars, callerVars,
                   recovered, sessVars>>
    /\ UNCHANGED <<deadline, zpVars>>

\* the drain goroutine starts its range over p.RecoverChan (line 110)
DrainStart ==
    /\ drainPc = "spawned"
    /\ drainPc' = IF "RecoverChan" \in nonnil THEN "ranging" ELSE "blockedNil"
    /\ UNCHANGED <<peerVars, serveVars, gossipPc, workerVars, callerVars,
                   stopPc, stopCalls, stopRecvd, sigServe, sigGossip,
                   recovered, sessVars>>
    /\ UNCHANGED <<deadline, zpVars>>

\* the range ends when RecoverChan is closed
DrainEnd ==
    /\ drainPc = "ranging"
    /\ "RecoverChan" \in closed
    /\ drainPc' = "exit"
    /\ UNCHANGED <<peerVars, serveVars, gossipPc, workerVars, callerVars,
                   stopPc, stopCalls, stopRecvd, sigServe, sigGossip,
                   recovered, sessVars>>
    /\ UNCHANGED <<deadline, zpVars>>

\* the channels Stop closes (lines 115-118) and the fields it sets to nil
\* (lines 119-124)
StopCloses == {"stopped", "reconCmdReq", "reconCmdResp", "RecoverChan"}
\* Stop leaving RecoverChan as it is
StopNils_keepRecover == ChanFields \ {"RecoverChan"}
StopNils == ChanFields

\* lines 115-125
StopFinish ==
    /\ stopPc = "closing"
    /\ closed' = closed \cup StopCloses
    /\ nonnil' = nonnil \ StopNils
    /\ stopPc' = "returned"
    /\ UNCHANGED <<tree, serveVars, gossipPc, workerVars, callerVars,
                   stopCalls, stopRecvd, sigServe, sigGossip, drainPc,
                   recovered, sessVars>>
    /\ UNCHANGED <<deadline, zpVars>>

(***************************************************************************)
(* The specifications.                                                     *)
(***************************************************************************)
\* the trees a peer is created with and the sets of the remote
InitTrees == {{}}
InitRemotes == {{}, {1}}

Init == \E t \in InitTrees, r \in InitRemotes : NewPeer(t, r)

Next ==
    \/ Start
    \/ \E c \in Apps : ExecCmdCall(c)
    \/ \E c \in Apps \cup {Listener} : handleCmdsRecv(c)
    \/ \E c \in Apps : treeCmd(c)
    \/ \E c \in Apps \cup {Listener} : handleCmdsResp(c)
    \/ handleCmdsClosed
    \/ handleCmdsRespClosed
    \/ handleCmdsRespNil
    \/ \E c \in Apps : ExecCmdSendClosed(c)
    \/ \E c \in Apps : ExecCmdRecvClosed(c)
    \/ ServeListen
    \/ ServeDisabled
    \/ ServeAccept
    \/ AcceptHandshake
    \/ \E who \in {"serve", "gossip"} : StoppedSend(who)
    \/ GossipDisabled
    \/ StopNotRunning
    \/ StopBegin
    \/ DrainStart
    \/ DrainEnd
    \/ StopFinish
    \/ SessionStep
    \/ \E to \in {"app", "drain"} : interactRecover(to)
    \/ RemoteReply
    \/ ReadFail
    \/ ReadDeadline
    \/ WriteBreak

Spec == Init /\ [][Next]_vars

\* every goroutine that can take a step eventually takes one; only the
\* application's reading of RecoverChan is not assumed
Progress ==
    \/ Start
    \/ \E c \in Apps : ExecCmdCall(c)
    \/ \E c \in Apps \cup {Listener} : handleCmdsRecv(c)
    \/ \E c \in Apps : treeCmd(c)
    \/ \E c \in Apps \cup {Listener} : handleCmdsResp(c)
    \/ handleCmdsClosed
    \/ handleCmdsRespClosed
    \/ handleCmdsRespNil
    \/ \E c \in Apps : ExecCmdSendClosed(c)
    \/ \E c \in Apps : ExecCmdRecvClosed(c)
    \/ ServeListen
    \/ ServeDisabled
    \/ ServeAccept
    \/ AcceptHandshake
    \/ \E who \in {"serve", "gossip"} : StoppedSend(who)
    \/ GossipDisabled
    \/ StopNotRunning
    \/ StopBegin
    \/ DrainStart
    \/ DrainEnd
    \/ StopFinish
    \/ SessionStep
    \/ interactRecover("drain")
    \/ RemoteReply
    \/ ReadFail
    \/ ReadDeadline
    \/ WriteBreak

FairSpec == Spec /\ WF_vars(Progress)

(***************************************************************************)
(* One session in detail: the peer is started, the listener has accepted a *)
(* connection and done the handshake, and handleCmds has received the      *)
(* session as its command.                                                 *)
(***************************************************************************)
SessionInit ==
    /\ tree \in SUBSET Universe
    /\ remoteSet \in SUBSET Universe
    /\ nonnil = ChanFields
    /\ closed = {}
    /\ servePc = "execWait" /\ conns = 1 /\ connState = "open"
    /\ gossipPc = "run"
    /\ workerPc = "call" /\ wcur = Listener /\ wres = NoErr
    /\ executing = {Listener}
    /\ cpc = [c \in Apps |-> "idle"]
    /\ ccalls = [c \in Apps |-> 0]
    /\ stopPc = "idle" /\ stopCalls = 0 /\ stopRecvd = <<>>
    /\ sigServe = "none" /\ sigGossip = "none" /\ drainPc = "none"
    /\ recovered = <<>>
    /\ spc = "none"
    /\ requestQ = <<>> /\ bottomQ = <<>> /\ rcvrSet = {} /\ flushing = FALSE
    /\ cur = NoReq /\ err = NoErr
    /\ reader = [st |-> "none", msg |-> NilMsg]
    /\ writeOK = TRUE
    /\ deadline = "set"
    /\ sent = <<>> /\ pushed = <<>> /\ handled = <<>>
    /\ zheap = [o \in ZpObjs |-> NilZp] /\ zlast = NoZpCall

SessionNext ==
    \/ SessionStep
    \/ interactRecover("app")
    \/ RemoteReply
    \/ ReadFail
    \/ ReadDeadline
    \/ WriteBreak
    \/ handleCmdsResp(Listener)

SessionSpec == SessionInit /\ [][SessionNext]_vars

(***************************************************************************)
(* Zp values on their own: objects are made by NewZp and combined by Add.  *)
(***************************************************************************)
Allocated(h) == {o \in ZpObjs : h[o] # NilZp}

\* the operand lists of an Add call: references to objects made so far
Operands(h) == UNION {[1..k -> Allocated(h)] : k \in 0..MaxArgs}

peerIdle == <<peerVars, serveVars, gossipPc, workerVars, callerVars, stopVars,
              recovered, sessVars, deadline>>

\* o = NewZp(p, n)
NewZpCall(o, p, n) ==
    /\ Cardinality(Allocated(zheap)) < Len(ZpOrder)
    /\ o = ZpOrder[Cardinality(Allocated(zheap)) + 1]
    /\ zheap' = [zheap EXCEPT ![o] = NewZp(p, n)]
    /\ zlast' = [NoZpCall EXCEPT !.op = "NewZp", !.zp = o, !.p = p, !.n = n,
                                 !.before = zheap, !.ret = o]
    /\ UNCHANGED peerIdle

\* zp.Add(values...)
AddCall(zp, values) ==
    /\ zp \in Allocated(zheap)
    /\ LET r == Add(zheap, zp, values)
       IN  /\ zheap' = r.heap
           /\ zlast' = [NoZpCall EXCEPT !.op = "Add", !.zp = zp,
                                        !.values = values, !.before = zheap,
                                        !.panicked = r.panicked,
                                        !.ret = r.ret]
    /\ UNCHANGED peerIdle

ZpInit == NewPeer({}, {})

ZpNext ==
    \/ \E o \in ZpObjs, p \in Moduli, n \in ZpInputs : NewZpCall(o, p, n)
    \/ \E zp \in ZpObjs : \E values \in Operands(zheap) : AddCall(zp, values)

ZpSpec == ZpInit /\ [][ZpNext]_vars

(***************************************************************************)
(* Properties of one session.                                              *)
(***************************************************************************)
\* the requests written so far, in order
SentRequests == SelectSeq(sent, LAMBDA w : w.msg.tag \in RequestTags)

\* the session's command has returned and accept has not yet closed the
\* connection
SessionReturned ==
    workerPc = "resp" /\ wcur = Listener /\ connState = "open"

\* C2: within a session the requests are written in the order pushRequest
\* queued them, and the i-th message dispatched to handleReply is handled
\* against the i-th request written, never against a barrier.
C2_FifoOrder ==
    /\ Len(SentRequests) <= Len(pushed)
    /\ \A i \in 1..Len(SentRequests) :
          SentRequests[i].msg.prefix = pushed[i].key
    /\ Len(handled) <= Len(SentRequests)
    /\ \A i \in 1..Len(handled) :
          /\ handled[i].req = pushed[i]
          /\ handled[i].req # NoReq

\* several replies dispatched while later requests were already written
C2_Witness ==
    /\ Len(handled) >= 3
    /\ Len(SentRequests) >= 4
    /\ flushing

\* the requests in flight: the Bottom entries of the in-flight queue
InFlight == Len(SelectSeq(bottomQ, LAMBDA b : b.state = reconStateBottom))

\* C3: the number of requests in flight never exceeds
\* MaxOutstandingReconRequests.
C3_WindowBound == InFlight <= MaxOutstandingReconRequests

\* the local elements of the node a dispatched reply was handled against
LocalOf(h) == {e \in tree : HasPrefix(e, h.req.node)}

\* what a dispatched reply adds to the recovered accumulator
Recovers(h) ==
    CASE h.msg.tag = "FullElements" -> h.msg.zset \ LocalOf(h)
      [] h.msg.tag = "Elements" -> h.msg.zset
      [] OTHER -> {}

FullsHandled == SelectSeq(handled, LAMBDA h : h.msg.tag = "FullElements")
ElementsSent == SelectSeq(sent, LAMBDA w : w.msg.tag = "Elements")

\* the root request was answered by FullElements{R} with R \ L non-empty
RootResolvedFull ==
    /\ Len(handled) = 1
    /\ handled[1].req.node = <<>>
    /\ handled[1].msg.tag = "FullElements"
    /\ handled[1].msg.zset \ tree # {}

\* C4: for every FullElements{R} reply handled on a node with local elements
\* L, one Elements message carrying exactly L \ R is written and exactly
\* R \ L is added to the accumulator; a session whose root request resolves
\* so, with R \ L non-empty, delivers exactly one Recover event, holding
\* exactly R \ L.
C4_FullElements ==
    /\ Len(ElementsSent) = Len(FullsHandled)
    /\ \A i \in 1..Len(FullsHandled) :
          ElementsSent[i].msg.zset =
              LocalOf(FullsHandled[i]) \ FullsHandled[i].msg.zset
    /\ rcvrSet = UNION {Recovers(handled[i]) : i \in 1..Len(handled)}
    /\ RootResolvedFull =>
          /\ Len(recovered) <= 1
          /\ \A i \in 1..Len(recovered) :
                recovered[i].event.RemoteElements = handled[1].msg.zset \ tree
          /\ SessionReturned => Len(recovered) = 1

\* such a session has returned, with elements on both sides of the difference
C4_Witness ==
    /\ RootResolvedFull
    /\ SessionReturned
    /\ tree \ handled[1].msg.zset # {}
    /\ Len(recovered) = 1

\* C5: a session delivers at most one Recover event, and only once the loop
\* has ended with both queues empty, Done has been written and the
\* accumulator is non-empty; a session that ends with an error, or with an
\* empty accumulator, delivers none.
C5_RecoverOnlyOnSuccess ==
    /\ Len(recovered) <= 1
    /\ (recovered # <<>> /\ connState = "open") =>
          /\ isDone(requestQ, bottomQ)
          /\ sent # <<>> /\ sent[Len(sent)].msg = DoneMsg
          /\ rcvrSet # {}
          /\ recovered[1].event.RemoteElements = rcvrSet
          /\ err = NoErr
    /\ err # NoErr => recovered = <<>>
    /\ (SessionReturned /\ rcvrSet = {}) => recovered = <<>>
    /\ (SessionReturned /\ err = NoErr /\ rcvrSet # {}) => Len(recovered) = 1

\* a Recover event delivered after several replies
C5_Witness ==
    /\ Len(recovered) = 1
    /\ SessionReturned
    /\ Len(handled) >= 2

\* the entries a SyncFail on node must queue
ChildEntries(node) ==
    [i \in 1..Len(Children(tree, node)) |->
        [node |-> Children(tree, node)[i], key |-> Children(tree, node)[i]]]

C6_Step ==
    LET h == handled'[Len(handled')]
    IN  (Len(handled') = Len(handled) + 1 /\ h.msg.tag = "SyncFail") =>
            IF ~IsLeaf(tree, h.req.node)
            THEN /\ Len(Children(tree, h.req.node)) > 0
                 /\ requestQ' = requestQ \o ChildEntries(h.req.node)
                 /\ sent' = sent
                 /\ err' = NoErr
            ELSE /\ requestQ' = requestQ
                 /\ sent' = sent
                 /\ err' # NoErr
                 /\ spc' = "none" /\ workerPc' = "resp" /\ wres' = err'

\* C6: a SyncFail handled for an internal node appends one request entry per
\* child, in child order, to the tail of the request queue, each with the
\* child's key and node, and writes nothing; handled for a leaf it queues
\* nothing and the session returns an error.
C6_SyncFail == [][C6_Step]_vars

\* a SyncFail on an internal node whose children went behind a queued request
C6_Witness ==
    /\ handled # <<>>
    /\ handled[Len(handled)].msg.tag = "SyncFail"
    /\ ~IsLeaf(tree, handled[Len(handled)].req.node)
    /\ Len(requestQ) >= 3

\* a session between an empty local tree and an empty remote set
EmptySession == tree = {} /\ remoteSet = {} /\ connState = "open"

\* C9 as stated: such a session writes nothing but Done, handles no reply
\* and delivers no Recover event.
C9_NoRequestWhenEmpty ==
    EmptySession =>
        /\ \A i \in 1..Len(sent) : sent[i].msg = DoneMsg
        /\ handled = <<>>
        /\ recovered = <<>>

\* C9 amended: such a session writes exactly one request, ReconRqstFull for
\* the root prefix with no elements, as its first message; it writes Done
\* only after the reply to that request was handled without error; it
\* writes no other request and delivers no Recover event.
C9_OneRequestWhenEmpty ==
    EmptySession =>
        /\ Len(SentRequests) <= 1
        /\ spc \in {"recv", "done", "recover"} => Len(SentRequests) = 1
        /\ sent # <<>> => sent[1].msg = ReconRqstFull(<<>>, {})
        /\ \A i \in 2..Len(sent) : sent[i].msg \in {ElementsMsg({}), DoneMsg}
        /\ \A i \in 1..Len(sent) :
              sent[i].msg = DoneMsg =>
                  /\ i = Len(sent)
                  /\ Len(handled) = 1 /\ err = NoErr
        /\ recovered = <<>>

\* such a session has written Done and returned
C9_Witness ==
    /\ EmptySession
    /\ SessionReturned
    /\ sent # <<>> /\ sent[Len(sent)].msg = DoneMsg

WriteFailed == \E i \in 1..Len(sent) : ~sent[i].ok

\* C10: a transport failure aborts the session: nothing is written after a
\* failed write, a session in which a write failed returns a non-nil error,
\* and so does a session that received from the closed message channel.
C10_TransportFailureAborts ==
    /\ \A i \in 1..(Len(sent) - 1) : sent[i].ok
    /\ (SessionReturned /\ WriteFailed) => wres # NoErr
    /\ (SessionReturned /\ \E i \in 1..Len(handled) : handled[i].msg = NilMsg)
          => wres # NoErr

(***************************************************************************)
(* Properties of the peer.                                                 *)
(***************************************************************************)
\* C1: at most one command is executing at any moment, and while the
\* session's command is executing no Insert or Remove changes the tree.
C1_OneCommandAtATime ==
    /\ [](Cardinality(executing) <= 1)
    /\ [][(Listener \in executing /\ Listener \in executing') => tree' = tree]_vars

\* a session is in its loop while both application goroutines are blocked
\* submitting a command
C1_Witness ==
    /\ Listener \in executing
    /\ spc = "loop" /\ Len(handled) >= 1
    /\ \A c \in Apps : cpc[c] = "send"

\* the set of values in a sequence
Range(q) == {q[i] : i \in 1..Len(q)}

C7_NoopStep ==
    (stopPc' = "noop" /\ stopCalls' # stopCalls) =>
        /\ nonnil' = nonnil /\ closed' = closed
        /\ stopRecvd' = <<>>
        /\ "serverEnable" \notin nonnil
        /\ UNCHANGED <<sigServe, sigGossip, drainPc, servePc, gossipPc,
                       workerPc>>

\* C7: when Stop returns on a started peer it has received exactly two
\* values from stopped, one sent by the listener and one by the gossip loop,
\* and all six channel fields are nil; Stop on a peer that is not running
\* receives nothing, closes nothing and changes no field.
C7_StopPostcondition ==
    /\ [](stopPc = "returned" =>
            /\ Len(stopRecvd) = 2
            /\ Range(stopRecvd) = {"serve", "gossip"}
            /\ nonnil \cap ChanFields = {})
    /\ [][C7_NoopStep]_vars

\* Stop has returned on a peer that served a connection
C7_Witness ==
    /\ stopPc = "returned"
    /\ conns = 1 /\ connState = "closed"

\* C8: Stop called on a started peer eventually returns.
C8_StopReturns == (stopPc = "wait1") ~> (stopPc = "returned")

(***************************************************************************)
(* Properties of Zp.                                                       *)
(***************************************************************************)
\* the value the receiver holds once zp.Add(values...) has returned on h
Sum(h, zp, values) == Add(h, zp, values).heap[zp].Z

SameP(h, S) == \A x, y \in S : h[x].P = h[y].P

\* C11: with operands of the receiver's modulus, a.Add(b) leaves (a + b)
\* mod p in the receiver, leaves every other object alone and returns the
\* receiver; a + b = b + a and (a + b) + c = a + (b + c) for the objects
\* made so far, and a.Add(b, c) equals a.Add(b).Add(c); in Z(5), 1 + 3 = 4
\* and 1 + 9 = 0.
C11_AddLaws ==
    /\ (zlast.op = "Add" /\ Len(zlast.values) = 1 /\ ~zlast.panicked) =>
          LET a == zlast.zp
              b == zlast.values[1]
          IN  /\ zheap[a].Z =
                    (zlast.before[a].Z + zlast.before[b].Z) % zlast.before[a].P
              /\ zheap[a].P = zlast.before[a].P
              /\ \A o \in ZpObjs \ {a} : zheap[o] = zlast.before[o]
              /\ zlast.ret = a
    /\ \A a, b \in Allocated(zheap) :
          (a # b /\ SameP(zheap, {a, b})) =>
              Sum(zheap, a, <<b>>) = Sum(zheap, b, <<a>>)
    /\ \A a, b, c \in Allocated(zheap) :
          (a # b /\ b # c /\ a # c /\ SameP(zheap, {a, b, c})) =>
              Sum(Add(zheap, a, <<b>>).heap, a, <<c>>)
                  = Sum(Add(zheap, b, <<c>>).heap, a, <<b>>)
    /\ \A a, b, c \in Allocated(zheap) :
          SameP(zheap, {a, b, c}) =>
              Add(zheap, a, <<b, c>>)
                  = Add(Add(zheap, a, <<b>>).heap, a, <<c>>)
    /\ LET h == [o \in ZpObjs |-> IF o = "a" THEN NewZp(5, 1)
                                  ELSE IF o = "b" THEN NewZp(5, 3)
                                  ELSE NewZp(5, 9)]
       IN  Sum(h, "a", <<"b">>) = 4 /\ Sum(h, "a", <<"c">>) = 0

\* three objects of Z(5) after an Add whose sum wrapped
C11_Witness ==
    /\ Allocated(zheap) = ZpObjs /\ SameP(zheap, ZpObjs)
    /\ zlast.op = "Add" /\ Len(zlast.values) = 1 /\ ~zlast.panicked
    /\ zlast.values[1] # zlast.zp
    /\ zlast.before[zlast.zp].Z + zlast.before[zlast.values[1]].Z
          >= zheap[zlast.zp].P

\* C12: NewZp(p, n) makes a value z with 0 <= z < p and z congruent to n
\* modulo p, for negative n too (NewZp(65537, -1) holds 65536), and every Zp
\* object holds 0 <= z < p after any sequence of Add calls.
C12_ValueInRange ==
    /\ zlast.op = "NewZp" =>
          LET z == zheap[zlast.zp]
          IN  /\ z.P = zlast.p
              /\ 0 <= z.Z /\ z.Z < zlast.p
              /\ (z.Z - zlast.n) % zlast.p = 0
              /\ \A o \in ZpObjs \ {zlast.zp} : zheap[o] = zlast.before[o]
    /\ \A o \in Allocated(zheap) : 0 <= zheap[o].Z /\ zheap[o].Z < zheap[o].P
    /\ NewZp(65537, 0 - 1).Z = 65536

\* an Add of two operands has returned, the sum having wrapped twice
C12_Witness ==
    /\ zlast.op = "Add" /\ Len(zlast.values) = 2 /\ ~zlast.panicked
    /\ zlast.zp \notin {zlast.values[1], zlast.values[2]}
    /\ zlast.before[zlast.zp].Z + zlast.before[zlast.values[1]].Z
          + zlast.before[zlast.values[2]].Z >= 2 * zheap[zlast.zp].P

\* the first operand whose modulus is not the receiver's, 0 if there is none
FirstMismatch(h, zp, values) ==
    IF \E i \in 1..Len(values) : h[values[i]].P # h[zp].P
    THEN CHOOSE i \in 1..Len(values) :
            /\ h[values[i]].P # h[zp].P
            /\ \A j \in 1..(i - 1) : h[values[j]].P = h[zp].P
    ELSE 0

\* the sum of the values the operands 1..k hold on h
RECURSIVE SumOf(_, _, _)
SumOf(h, values, k) ==
    IF k = 0 THEN 0 ELSE h[values[k]].Z + SumOf(h, values, k - 1)

\* C13: Add panics, and does not return, exactly when some operand's modulus
\* differs from the receiver's, wherever the operand stands in the list; the
\* receiver then holds its value plus the operands before that one and
\* nothing of the operand itself, and no other object has changed.
C13_MismatchPanics ==
    zlast.op = "Add" =>
        LET k == FirstMismatch(zlast.before, zlast.zp, zlast.values)
        IN  /\ zlast.panicked <=> k # 0
            /\ zlast.panicked => zlast.ret = "none"
            /\ ~zlast.panicked => zlast.ret = zlast.zp
            /\ \A o \in ZpObjs \ {zlast.zp} : zheap[o] = zlast.before[o]
            /\ zheap[zlast.zp].P = zlast.before[zlast.zp].P
            /\ (zlast.panicked
                  /\ \A i \in 1..(k - 1) : zlast.values[i] # zlast.zp) =>
                  zheap[zlast.zp].Z =
                      (zlast.before[zlast.zp].Z
                         + SumOf(zlast.before, zlast.values, k - 1))
                      % zlast.before[zlast.zp].P

\* an Add panicked on its second operand after combining the first
C13_Witness ==
    /\ zlast.op = "Add" /\ zlast.panicked
    /\ Len(zlast.values) = 2
    /\ FirstMismatch(zlast.before, zlast.zp, zlast.values) = 2
    /\ zheap[zlast.zp] # zlast.before[zlast.zp]

(***************************************************************************)
(* Properties of the session's loop.                                       *)
(***************************************************************************)
\* C14: while the session is flushing, from the push of a FlushEnded
\* barrier to its pop, no step of the session writes a request.
C14_NoSendWhileFlushing ==
    [][flushing => Len(SentRequests') <= Len(SentRequests)]_vars

\* the session is inside the loop of lines 381-422
Looping == spc \in {"loop", "recv"}

\* the session's goroutine keeps running and the remote answers every
\* request it was delivered
FairSessionSpec ==
    SessionSpec /\ WF_vars(SessionStep) /\ WF_vars(RemoteReply)

\* C15: a session whose requests all reach the remote, and are all answered,
\* eventually leaves the loop, with an error or with both queues empty.
C15_LoopEnds == Looping ~> (~Looping \/ ~writeOK)

\* the loop has ended with both queues empty after a flush and three replies
C15_Witness ==
    /\ spc = "done" /\ isDone(requestQ, bottomQ)
    /\ Len(handled) >= 3
    /\ writeOK /\ deadline = "set"

\* C16: a session that cannot take a step is waiting in the receive of the
\* already-flushing branch, for a request that was in flight.
C16_SingleBlockingPoint ==
    (SessionRunning /\ Listener \in executing /\ ~ENABLED SessionStep) =>
        /\ spc = "recv"
        /\ cur # NoReq
        /\ flushing

\* a dispatched reply that is none of SyncFail, Elements, FullElements
BadReply(h) == h.msg.tag \notin {"SyncFail", "Elements", "FullElements"}

C17_Step ==
    /\ (Len(handled') = Len(handled) + 1 /\ BadReply(handled'[Len(handled')])) =>
          /\ err' # NoErr
          /\ sent' = sent
          /\ requestQ' = requestQ
          /\ spc' = "none" /\ workerPc' = "resp" /\ wres' = err'
    /\ (err # NoErr /\ sent # <<>>) => (sent' = sent \/ sent' = <<>>)

\* C17: a reply of any other tag, or the nil message of the closed stream,
\* makes handleReply return an error; the session returns it at once and
\* writes nothing afterwards.
C17_UnexpectedReplyAborts == [][C17_Step]_vars

\* a session has returned the error of a Done reply, after an earlier reply
C17_Witness ==
    /\ SessionReturned
    /\ Len(handled) >= 2
    /\ handled[Len(handled)].msg = DoneMsg
    /\ wres = "unexpected message"

(***************************************************************************)
(* Properties of the peer's goroutines.                                    *)
(***************************************************************************)
\* C18: the deadline of an accepted connection is in force during the
\* handshake, and an expired deadline never ends the session's blocking
\* receive.
C18_NoSessionTimeout ==
    /\ [](servePc = "handshake" => deadline = "set")
    /\ [][(spc = "recv" /\ deadline = "expired") => spc' = "recv"]_vars

C19_Step ==
    /\ \A c \in Apps :
          /\ (cpc[c] = "send" /\ cpc'[c] # "send") =>
                (cpc'[c] = "wait" /\ c \in executing' /\ c \notin executing)
          /\ (cpc[c] = "wait" /\ cpc'[c] # "wait") =>
                (workerPc = "resp" /\ wcur = c /\ workerPc' # "resp")
    /\ (servePc = "execSend" /\ servePc' # "execSend") =>
          (servePc' = "execWait" /\ Listener \in executing')
    /\ (servePc = "execWait" /\ servePc' # "execWait") =>
          (workerPc = "resp" /\ wcur = Listener /\ workerPc' # "resp")

\* C19: a caller blocked in the send of ExecCmd leaves it only by the worker
\* receiving its command, which is then executed, and a caller waiting for
\* its result leaves the receive only by the worker sending the result of
\* that caller's command.
C19_OwnResult == [][C19_Step]_vars

\* C20: no goroutine panics on a channel: the worker never sends a result
\* on the closed reconCmdResp, no caller sends on the closed reconCmdReq,
\* and no session sends on the closed RecoverChan.
C20_NoChannelPanic ==
    /\ workerPc # "panic"
    /\ \A c \in Apps : cpc[c] # "panic"
    /\ ~(spc = "recover" /\ "RecoverChan" \in closed)

====
